---- MODULE Spec2Model ----
(***************************************************************************)
(* Model of the ABI struct resolver of smartql                             *)
(* (src/eosio_abi_to_graphql_ast.mjs): handleBaseFields, handleStructs and *)
(* eosio_abi_to_graphql_ast, together with what a caller can do to the     *)
(* ABI document and to the returned AST.                                   *)
(*                                                                         *)
(* JavaScript strings are modelled as sequences of one-character strings,  *)
(* so that the regular expressions of handleStructs and the string         *)
(* concatenation of the variant expansion are computed, not assumed.       *)
(***************************************************************************)
EXTENDS Integers, Sequences, FiniteSets, TLC

VARIABLES abi, abi0, schema, frozen, outcome, depth, calls, mutations, caller

vars == <<abi, abi0, schema, frozen, outcome, depth, calls, mutations, caller>>

(***************************************************************************)
(* Bounds of the model.                                                    *)
(***************************************************************************)
\* how many times the same ABI document is handed to eosio_abi_to_graphql_ast
MaxCalls == 2
\* how many writes a caller attempts on a returned AST
MaxMutations == 1
\* depth of the JavaScript call stack: a recursion deeper than this ends in
\* a RangeError (maximum call stack size exceeded)
MaxStack == 5

(***************************************************************************)
(* Strings.                                                                *)
(***************************************************************************)
EmptyString == <<>>

\* struct, variant and alias names used by the inputs
A == <<"A">>
B == <<"B">>
C == <<"C">>
S == <<"S">>
U == <<"U">>
V == <<"V">>
N == <<"N">>
M == <<"M">>
ghost == <<"g", "h", "o", "s", "t">>

\* primitive type names
t_name == <<"n", "a", "m", "e">>
t_asset == <<"a", "s", "s", "e", "t">>
t_uint8 == <<"u", "i", "n", "t", "8">>

\* the registry of primitive types imported at line 8 (./eosio_types.mjs)
eosio_types == {t_name, t_asset, t_uint8}

\* the modifier markers of a raw type string
MarkerList == <<"[", "]">>
MarkerOptional == <<"?">>
MarkerBinaryEx == <<"$">>
MarkerVariant == <<"@">>

(***************************************************************************)
(* The regular expressions of handleStructs (lines 45-49).                 *)
(***************************************************************************)
\* !!type.match(/[$?]/gmu), !!type.match(/\$/gmu), !!type.match(/@/gmu):
\* some character of the string is in the class
MatchClass(type, class) == \E i \in 1..Len(type) : type[i] \in class

\* !!type.match(/\[\]/gmu): "[" immediately followed by "]"
MatchBrackets(type) ==
  \E i \in 1..(Len(type) - 1) : type[i] = "[" /\ type[i + 1] = "]"

\* type.replace(/[[\]?$@]/gmu, ""): every character of the class is removed
StripMarkers(type) ==
  SelectSeq(type, LAMBDA ch : ch \notin {"[", "]", "?", "$", "@"})

\* IsOptional with the character class reduced to the '?' marker
IsOptional_QuestionOnly(type) == MatchClass(type, {"?"})

\* line 45
IsOptional(type) == MatchClass(type, {"$", "?"})

\* line 46
IsBinaryEx(type) == MatchClass(type, {"$"})

\* line 47
IsVariant(type) == MatchClass(type, {"@"})

\* line 48
IsList(type) == MatchBrackets(type)

\* lines 45-55: one resolved field of the AST
ResolveField(field) ==
  LET type == StripMarkers(field.type)
  IN [name |-> field.name,
      type |-> type,
      info |-> [object |-> type \notin eosio_types,
                optional |-> IsOptional(field.type),
                list |-> IsList(field.type),
                binary_ex |-> IsBinaryEx(field.type),
                variant |-> IsVariant(field.type)]]

\* lines 42-57: the loop over fields_with_base_fields
ResolveFields(fields) == [i \in 1..Len(fields) |-> ResolveField(fields[i])]

(***************************************************************************)
(* ABI structs.  A struct is [name, base, fields, has_fields]: base is the *)
(* empty string when the struct has none (a falsy base, lines 23 and 39),  *)
(* and has_fields is FALSE for the entry {name: new_type_name} that the    *)
(* alias loop pushes when find() returns undefined (no base, no fields).   *)
(***************************************************************************)
Struct(name, base, fields) ==
  [name |-> name, base |-> base, fields |-> fields, has_fields |-> TRUE]

Field(name, type) == [name |-> name, type |-> type]

\* structs.find(({ name }) => name == base): the index of the first struct
\* of that name, 0 standing for undefined
Find(structs, name) ==
  IF \E i \in 1..Len(structs) : structs[i].name = name
  THEN CHOOSE i \in 1..Len(structs) :
         /\ structs[i].name = name
         /\ \A j \in 1..(i - 1) : structs[j].name # name
  ELSE 0

\* results of the resolution functions: a value, or the exception thrown
Ok(fields, d) == [status |-> "ok", fields |-> fields, depth |-> d]

Thrown(error, d) == [status |-> error, fields |-> <<>>, depth |-> d]

\* handleBaseFields with the two spreads of lines 23-24 swapped: the
\* struct's fields before those of its nested base
RECURSIVE handleBaseFields_OwnFirst(_, _, _)
handleBaseFields_OwnFirst(base, structs, frames) ==
  IF frames > MaxStack
  THEN Thrown("RangeError", frames)
  ELSE LET i == Find(structs, base)
       IN IF i = 0
          THEN Thrown("TypeError", frames)
          ELSE LET nested ==
                     IF structs[i].base # EmptyString
                     THEN handleBaseFields_OwnFirst(structs[i].base, structs,
                                                    frames + 1)
                     ELSE Ok(<<>>, frames)
               IN IF nested.status # "ok"
                  THEN nested
                  ELSE IF ~structs[i].has_fields
                       THEN Thrown("TypeError", nested.depth)
                       ELSE Ok(structs[i].fields \o nested.fields, nested.depth)

\* handleBaseFields guarding the find of line 20: a base that is not found
\* contributes no fields
RECURSIVE handleBaseFields_SkipMissing(_, _, _)
handleBaseFields_SkipMissing(base, structs, frames) ==
  IF frames > MaxStack
  THEN Thrown("RangeError", frames)
  ELSE LET i == Find(structs, base)
       IN IF i = 0
          THEN Ok(<<>>, frames)
          ELSE LET nested ==
                     IF structs[i].base # EmptyString
                     THEN handleBaseFields_SkipMissing(structs[i].base, structs,
                                                       frames + 1)
                     ELSE Ok(<<>>, frames)
               IN IF nested.status # "ok"
                  THEN nested
                  ELSE IF ~structs[i].has_fields
                       THEN Thrown("TypeError", nested.depth)
                       ELSE Ok(nested.fields \o structs[i].fields, nested.depth)

(***************************************************************************)
(* handleBaseFields (lines 19-26).  The third parameter is the number of   *)
(* frames of handleBaseFields on the call stack.                           *)
(***************************************************************************)
RECURSIVE handleBaseFields(_, _, _)
handleBaseFields(base, structs, frames) ==
  IF frames > MaxStack
  THEN Thrown("RangeError", frames)
  ELSE LET i == Find(structs, base)
       IN IF i = 0
          THEN Thrown("TypeError", frames)
          ELSE LET nested ==
                     IF structs[i].base # EmptyString
                     THEN handleBaseFields(structs[i].base, structs, frames + 1)
                     ELSE Ok(<<>>, frames)
               IN IF nested.status # "ok"
                  THEN nested
                  ELSE IF ~structs[i].has_fields
                       THEN Thrown("TypeError", nested.depth)
                       ELSE Ok(nested.fields \o structs[i].fields, nested.depth)

(***************************************************************************)
(* handleStructs (lines 34-61): the AST is a function from struct names to *)
(* resolved field lists; a later struct of the same name overwrites.       *)
(***************************************************************************)
EmptyAst == <<>>

Put(ast, name, ast_fields) ==
  [k \in (DOMAIN ast) \cup {name} |-> IF k = name THEN ast_fields ELSE ast[k]]

Max(a, b) == IF a > b THEN a ELSE b

\* lines 39-41
FieldsWithBaseFields(struct, structs) ==
  LET inherited == IF struct.base # EmptyString
                   THEN handleBaseFields(struct.base, structs, 1)
                   ELSE Ok(<<>>, 0)
  IN IF inherited.status # "ok"
     THEN inherited
     ELSE IF ~struct.has_fields
          THEN Thrown("TypeError", inherited.depth)
          ELSE Ok(inherited.fields \o struct.fields, inherited.depth)

RECURSIVE handleStructsLoop(_, _, _, _)
handleStructsLoop(structs, i, graphql_ast_structs, d) ==
  IF i > Len(structs)
  THEN [status |-> "ok", ast |-> graphql_ast_structs, depth |-> d]
  ELSE LET r == FieldsWithBaseFields(structs[i], structs)
       IN IF r.status # "ok"
          THEN [status |-> r.status, ast |-> EmptyAst, depth |-> Max(d, r.depth)]
          ELSE handleStructsLoop(structs, i + 1,
                 Put(graphql_ast_structs, structs[i].name, ResolveFields(r.fields)),
                 Max(d, r.depth))

handleStructs(structs) == handleStructsLoop(structs, 1, EmptyAst, 0)

(***************************************************************************)
(* eosio_abi_to_graphql_ast (lines 68-91).                                 *)
(***************************************************************************)
\* VariantStruct appending only the variant marker to the member type
VariantStruct_NoExtension(variant) ==
  Struct(variant.name, EmptyString,
         [i \in 1..Len(variant.types) |->
            Field(variant.types[i], variant.types[i] \o <<"@">>)])

\* lines 74-78: the struct pushed for one variant
VariantStruct(variant) ==
  Struct(variant.name, EmptyString,
         [i \in 1..Len(variant.types) |->
            Field(variant.types[i], variant.types[i] \o <<"$", "@">>)])

\* lines 72-78
RECURSIVE PushVariants(_, _)
PushVariants(new_structs, variants) ==
  IF variants = <<>>
  THEN new_structs
  ELSE PushVariants(Append(new_structs, VariantStruct(Head(variants))),
                    Tail(variants))

\* AliasStruct copying the fields of the real struct but not its base
AliasStruct_NoBase(new_structs, alias) ==
  LET i == Find(new_structs, alias.type)
  IN IF i = 0
     THEN [name |-> alias.new_type_name, base |-> EmptyString,
           fields |-> <<>>, has_fields |-> FALSE]
     ELSE [new_structs[i] EXCEPT !.name = alias.new_type_name,
                                 !.base = EmptyString]

\* lines 82-85: { ...new_structs.find((x) => x.name == real_type), name }
AliasStruct(new_structs, alias) ==
  LET i == Find(new_structs, alias.type)
  IN IF i = 0
     THEN [name |-> alias.new_type_name, base |-> EmptyString,
           fields |-> <<>>, has_fields |-> FALSE]
     ELSE [new_structs[i] EXCEPT !.name = alias.new_type_name]

\* lines 80-86
RECURSIVE PushAliases(_, _)
PushAliases(new_structs, types) ==
  IF types = <<>>
  THEN new_structs
  ELSE PushAliases(Append(new_structs, AliasStruct(new_structs, Head(types))),
                   Tail(types))

\* line 70: new_structs is abi.structs itself, not a copy, so every push of
\* lines 74 and 82 lands in the caller's document; this is the array that
\* abi.structs is after the pushes
StructsAfterPushes(document) ==
  PushAliases(PushVariants(document.structs, document.variants), document.types)

\* line 90: Object.freeze freezes the object it is given and nothing below
\* it; the levels of the AST are "schema" (the mapping), "fields" (a
\* struct's array), "field" (a resolved field) and "info" (its $info)
ObjectFreeze == {"schema"}

(***************************************************************************)
(* The ABI documents handed to the resolver.                               *)
(***************************************************************************)
Variant(name, types) == [name |-> name, types |-> types]

Alias(type, new_type_name) == [type |-> type, new_type_name |-> new_type_name]

Document(structs, variants, types) ==
  [structs |-> structs, variants |-> variants, types |-> types]

\* the declared structs are a prefix of these names, so struct names are
\* distinct, as the chain requires of an ABI
StructNames == <<A, B, C>>

BaseChoices(n) == {EmptyString, ghost} \cup {StructNames[i] : i \in 1..n}

\* the declared fields of a struct: either every struct declares field
\* names of its own, or A and B both declare a field x
DeclaredFields(name, redeclare) ==
  IF name = A
  THEN IF redeclare THEN <<Field(<<"x">>, t_asset)>>
       ELSE <<Field(<<"a">>, t_name)>>
  ELSE IF name = B
       THEN IF redeclare THEN <<Field(<<"x">>, t_name)>>
            ELSE <<Field(<<"b">>, t_asset \o <<"[", "]">>)>>
       ELSE IF redeclare
            THEN <<Field(<<"c">>, U \o <<"$">>), Field(<<"d">>, t_uint8)>>
            ELSE <<Field(<<"c">>, A \o <<"?">>)>>

StructLists ==
  UNION {
    {[i \in 1..n |-> Struct(StructNames[i], bases[i],
                            DeclaredFields(StructNames[i], redeclare))] :
       bases \in [1..n -> BaseChoices(n)], redeclare \in BOOLEAN} :
    n \in 1..Len(StructNames)}

VariantLists ==
  {<<>>,
   <<Variant(V, <<t_name, A>>)>>,
   <<Variant(V, <<t_uint8, B, t_asset>>), Variant(U, <<A>>)>>}

AliasLists ==
  {<<>>,
   <<Alias(A, N)>>,
   <<Alias(C, N)>>,
   <<Alias(C, N), Alias(V, M)>>,
   <<Alias(t_name, N)>>,
   <<Alias(ghost, N)>>,
   <<Alias(B, ghost)>>,
   <<Alias(B, N), Alias(N, M)>>,
   <<Alias(N, M), Alias(B, N)>>}

Documents ==
  {Document(structs, variants, types) :
     structs \in StructLists, variants \in VariantLists, types \in AliasLists}

\* raw type strings: a base name followed by any subset of the four markers
\* in any order
Markers == {MarkerList, MarkerOptional, MarkerBinaryEx, MarkerVariant}

MarkerOrders ==
  UNION {{p \in [1..k -> Markers] : \A i, j \in 1..k : p[i] = p[j] => i = j} :
           k \in 0..Cardinality(Markers)}

RECURSIVE Concat(_)
Concat(strings) ==
  IF strings = <<>> THEN EmptyString ELSE Head(strings) \o Concat(Tail(strings))

RawTypes == {base \o Concat(p) : base \in {t_name, t_uint8, A}, p \in MarkerOrders}

TypeDocuments ==
  {Document(<<Struct(S, EmptyString, <<Field(<<"f">>, raw)>>)>>, <<>>, <<>>) :
     raw \in RawTypes}

(***************************************************************************)
(* State.  abi is the caller's document (abi.structs is the array the      *)
(* resolver pushes to), abi0 the document as first supplied; schema is the *)
(* AST of the last call, frozen the levels of it that are frozen, outcome  *)
(* how the last call ended.                                                *)
(***************************************************************************)
Init ==
  /\ abi \in Documents \cup TypeDocuments
  /\ abi0 = abi
  /\ schema = EmptyAst
  /\ frozen = {}
  /\ outcome = "none"
  /\ depth = 0
  /\ calls = 0
  /\ mutations = 0
  /\ caller = "none"

\* eosio_abi_to_graphql_ast(abi), lines 68-91
Call ==
  /\ calls < MaxCalls
  /\ LET new_structs == StructsAfterPushes(abi)
         structs_ast == handleStructs(new_structs)
     IN /\ abi' = [abi EXCEPT !.structs = new_structs]
        /\ outcome' = IF structs_ast.status = "ok" THEN "returned"
                      ELSE structs_ast.status
        /\ schema' = structs_ast.ast
        /\ frozen' = IF structs_ast.status = "ok" THEN ObjectFreeze ELSE {}
        /\ depth' = structs_ast.depth
  /\ calls' = calls + 1
  /\ caller' = "none"
  /\ UNCHANGED <<abi0, mutations>>

\* a write to an object of the AST: dropped when the object is frozen
Write(level, written) ==
  /\ outcome = "returned"
  /\ mutations < MaxMutations
  /\ mutations' = mutations + 1
  /\ IF level \in frozen
     THEN schema' = schema /\ caller' = "rejected"
     ELSE schema' = written /\ caller' = "applied"
  /\ UNCHANGED <<abi, abi0, frozen, outcome, depth, calls>>

\* ast[name] = []
CallerAddStruct ==
  \E name \in {ghost} \ DOMAIN schema :
    Write("schema", Put(schema, name, <<>>))

\* ast[name].push(field)
CallerPushField ==
  \E name \in DOMAIN schema :
    Write("fields",
          Put(schema, name,
              Append(schema[name], ResolveField(Field(<<"z">>, t_name)))))

\* ast[name][i].$info.optional = !ast[name][i].$info.optional
CallerSetFlag ==
  \E name \in DOMAIN schema :
    \E i \in DOMAIN schema[name] :
      Write("info",
            Put(schema, name,
                [schema[name] EXCEPT ![i].info.optional = ~@]))

Next == Call \/ CallerAddStruct \/ CallerPushField \/ CallerSetFlag

Spec == Init /\ [][Next]_vars

(***************************************************************************)
(* Properties.                                                             *)
(***************************************************************************)
\* the last call returned an AST and no caller has written to it since
Returned == outcome = "returned" /\ caller = "none"

\* the last call has ended, one way or the other
Ended == calls > 0 /\ caller = "none"

Names(structs) == {structs[i].name : i \in 1..Len(structs)}

FieldNames(fields) == [i \in 1..Len(fields) |-> fields[i].name]

Range(f) == {f[i] : i \in DOMAIN f}

\* the struct list the alias of position k is looked up in, on the first
\* call for the document
WorkingListBefore(k) ==
  PushAliases(PushVariants(abi0.structs, abi0.variants),
              SubSeq(abi0.types, 1, k - 1))

\* some struct's base chain comes back to a name it has passed
RECURSIVE Revisits(_, _, _)
Revisits(name, structs, passed) ==
  LET i == Find(structs, name)
  IN IF i = 0 THEN FALSE
     ELSE IF name \in passed THEN TRUE
     ELSE IF structs[i].base = EmptyString THEN FALSE
     ELSE Revisits(structs[i].base, structs, passed \cup {name})

HasCycle(structs) ==
  \E i \in 1..Len(structs) : Revisits(structs[i].name, structs, {})

\* every base names a struct of the list
BasesDeclared(structs) ==
  \A i \in 1..Len(structs) :
    structs[i].base # EmptyString => structs[i].base \in Names(structs)

\* C1: for acyclic base chains over declared structs, the field list of a
\* struct with a base is the field list of its base (itself flattened the
\* same way, so base-of-base comes before base) followed by the struct's
\* own declared fields in declared order; a struct without a base has its
\* declared fields; B = [a] and C with base B and [b] give C = [a, b].
C1_InheritanceFlattening ==
  Returned =>
    \A i \in 1..Len(abi0.structs) :
      LET struct == abi0.structs[i]
      IN /\ struct.base = EmptyString =>
              schema[struct.name] = ResolveFields(struct.fields)
         /\ struct.base \in Names(abi0.structs) =>
              /\ schema[struct.name] =
                   schema[struct.base] \o ResolveFields(struct.fields)
              /\ LET base_struct == abi0.structs[Find(abi0.structs, struct.base)]
                 IN base_struct.base = EmptyString =>
                      FieldNames(schema[struct.name]) =
                        FieldNames(base_struct.fields) \o FieldNames(struct.fields)

\* a chain C -> B -> A resolved: C has A's field, then B's, then its own
C1_Witness ==
  /\ Returned
  /\ Len(abi0.structs) = 3
  /\ abi0.structs[3].base = B
  /\ abi0.structs[2].base = A
  /\ abi0.structs[1].base = EmptyString
  /\ FieldNames(schema[C]) = <<<<"a">>, <<"b">>, <<"c">>>>
  /\ FieldNames(schema[B]) = <<<<"a">>, <<"b">>>>

\* C2: for every alias of abi.types the returned AST has an entry under
\* new_type_name equal (names, base types, flags, order, inherited fields
\* included) to the entry under the real type, also when the real type is
\* a variant.
C2_AliasTransparency ==
  Returned =>
    \A k \in 1..Len(abi0.types) :
      /\ abi0.types[k].new_type_name \in DOMAIN schema
      /\ abi0.types[k].type \in DOMAIN schema
      /\ schema[abi0.types[k].new_type_name] = schema[abi0.types[k].type]

\* N is an alias of C, which inherits from B, and M an alias of the
\* variant V: both carry the fields of their real type
C2_Witness ==
  /\ Returned
  /\ abi0.types = <<Alias(C, N), Alias(V, M)>>
  /\ abi0.structs[3].base = B
  /\ Len(schema[N]) > Len(abi0.structs[3].fields)
  /\ schema[N] = schema[C]
  /\ schema[M] = schema[V]
  /\ schema[M] # <<>>

\* C3: when a declared struct names a base that no entry of the struct
\* list carries, the call ends in a thrown error and returns no AST.
C3_MissingBase ==
  (/\ Ended
   /\ \E i \in 1..Len(abi0.structs) :
        /\ abi0.structs[i].base # EmptyString
        /\ abi0.structs[i].base \notin Names(abi.structs))
  => /\ outcome \in {"TypeError", "RangeError"}
     /\ schema = EmptyAst
     /\ frozen = {}

\* the only fault of the document is a struct whose base is "ghost"
C3_Witness ==
  /\ Ended
  /\ \E i \in 1..Len(abi0.structs) : abi0.structs[i].base = ghost
  /\ \A i \in 1..Len(abi0.structs) : abi0.structs[i].base \in {EmptyString, ghost}
  /\ ghost \notin Names(abi.structs)
  /\ abi0.types = <<>>
  /\ outcome = "TypeError"
  /\ schema = EmptyAst

\* C4: a base chain that revisits a struct name ends in CyclicInheritance,
\* and the recursion is never deeper than the struct list is long.
C4_CyclicInheritance ==
  (/\ Ended
   /\ HasCycle(abi.structs)
   /\ BasesDeclared(abi.structs)
   /\ \A i \in 1..Len(abi.structs) : abi.structs[i].has_fields)
  => /\ outcome = "CyclicInheritance"
     /\ depth <= Len(abi.structs)

\* C5: the call throws exactly when some alias's real type is neither a
\* struct or variant of the working struct list nor a primitive; an alias
\* of a primitive is no failure (documents with no other fault, first call).
C5_AliasTargetCheck ==
  (/\ Ended
   /\ calls = 1
   /\ ~HasCycle(abi.structs)
   /\ BasesDeclared(abi.structs))
  => (outcome # "returned" <=>
        \E k \in 1..Len(abi0.types) :
          /\ abi0.types[k].type \notin Names(WorkingListBefore(k))
          /\ abi0.types[k].type \notin eosio_types)

\* C6: the document is what it was before the first call.
C6_InputUnchanged == abi = abi0

\* C7: once returned, the AST is not changed by anything a caller does.
C7_DeepImmutability ==
  [][(outcome = "returned" /\ calls' = calls) => schema' = schema]_vars

\* C8: in a returned AST no field list has two fields of one name, and
\* every field's type is a primitive or a key of the AST.
C8_WellFormedSchema ==
  Returned =>
    \A name \in DOMAIN schema :
      /\ \A i, j \in DOMAIN schema[name] :
           schema[name][i].name = schema[name][j].name => i = j
      /\ \A i \in DOMAIN schema[name] :
           schema[name][i].type \in eosio_types \cup DOMAIN schema

\* the flags and base type of the one field of a type document, against
\* the markers its raw type was built from; optional_by is the set of
\* markers that make the field optional
FlagsFollowMarkers(optional_by) ==
  (Returned /\ abi0 \in TypeDocuments) =>
    \A base \in {t_name, t_uint8, A} :
      \A p \in MarkerOrders :
        abi0.structs[1].fields[1].type = base \o Concat(p) =>
          LET field == schema[S][1]
          IN /\ field.type = base
             /\ field.info.list <=> MarkerList \in Range(p)
             /\ field.info.binary_ex <=> MarkerBinaryEx \in Range(p)
             /\ field.info.variant <=> MarkerVariant \in Range(p)
             /\ field.info.optional <=> (Range(p) \cap optional_by # {})

\* C9 as claimed: the base type is the string without its markers and each
\* of the four flags is true exactly when its own marker is present;
\* optional is true only when '?' is present.
C9_IndependentFlags == FlagsFollowMarkers({MarkerOptional})

\* C9 amended: the base type is the string without its markers; list,
\* binary-extension and variant are true exactly when their own marker is
\* present; optional is true exactly when '?' or '$' is present.
C9_FlagsOptionalByExtension ==
  FlagsFollowMarkers({MarkerOptional, MarkerBinaryEx})

\* "name$": a binary extension without '?' is resolved as optional
C9_Witness ==
  /\ Returned
  /\ abi0 \in TypeDocuments
  /\ abi0.structs[1].fields[1].type = t_name \o <<"$">>
  /\ schema[S][1].type = t_name
  /\ schema[S][1].info.binary_ex
  /\ schema[S][1].info.optional
  /\ ~schema[S][1].info.list

\* C10: every variant {name, types: [t1..tn]} has a key name in the
\* returned AST with n fields in the order of types, the i-th named ti with
\* base type ti, binary_ex and variant true, list false, and object true
\* iff ti is not a primitive of the registry.
C10_VariantExpansion ==
  Returned =>
    \A k \in 1..Len(abi0.variants) :
      LET variant == abi0.variants[k]
      IN /\ variant.name \in DOMAIN schema
         /\ Len(schema[variant.name]) = Len(variant.types)
         /\ \A i \in 1..Len(variant.types) :
              LET field == schema[variant.name][i]
              IN /\ field.name = variant.types[i]
                 /\ field.type = variant.types[i]
                 /\ field.info.binary_ex
                 /\ field.info.variant
                 /\ ~field.info.list
                 /\ field.info.object <=> variant.types[i] \notin eosio_types

\* the variant V of uint8, B and asset: three slots, the second an object
C10_Witness ==
  /\ Returned
  /\ Len(abi0.variants) = 2
  /\ FieldNames(schema[V]) = <<t_uint8, B, t_asset>>
  /\ schema[V][2].info.object
  /\ ~schema[V][1].info.object
  /\ schema[V][3].info.binary_ex /\ schema[V][3].info.variant

====
